---- MODULE Spec2Model ----
(***************************************************************************)
(* Model of homebridge-motion-blinds-local: the UDP gateway client          *)
(* (MotionGateway), the platform that wires telemetry to the accessories    *)
(* (MotionBlindsPlatform) and the per-device movement tracker               *)
(* (MotionBlindAccessory).                                                  *)
(*                                                                          *)
(* Node.js runs one callback at a time.  Every action below is one          *)
(* macrotask (a timer callback, a socket callback, a call from the host)    *)
(* or one microtask (the continuation of an await whose promise settled in  *)
(* the macrotask before it).  A pending microtask is held in `run`, and no  *)
(* macrotask is taken while `run` holds one.  An inbound datagram is        *)
(* processed in two steps that nothing can interleave: the telemetry event  *)
(* (emit 'blindState') and then the response handler; `inbound` holds the   *)
(* datagram between the two.                                                *)
(***************************************************************************)
EXTENDS Integers, Sequences, FiniteSets, TLC

(***************************************************************************)
(* Program constants                                                        *)
(***************************************************************************)
POSITION_TOLERANCE == 2

MAX_MOVEMENT_TIMEOUT == 90000

REQUEST_TIMEOUT == 5000

STATE_DECREASING == 0

STATE_INCREASING == 1

STATE_STOPPED == 2

OP_CLOSE == 0

OP_STOP == 2

OP_STATUS_QUERY == 5

(***************************************************************************)
(* Bounds of the model                                                      *)
(***************************************************************************)
\* request records that may exist at once (pending sends and their callbacks)
MaxRequests == 2

\* ticks of the decaying poll schedule (POLL_INTERVALS has 29 entries)
NumPollTicks == 1

\* connect() calls whose promise or timer is still alive at once
MaxConnects == 2

\* post-stop 500 ms status timers armed at once, per device
MaxStopTimers == 1

\* the devices of the configuration, in list order
MacSeq == <<"m1", "m2">>

Macs == {MacSeq[i] : i \in 1..Len(MacSeq)}

\* an address no accessory is registered for
UnknownMac == "mx"

NoMac == "-"

\* protocol positions carried by inbound status payloads
ProtocolReadings == {2, 40, 100}

\* host positions the host may ask for
HostTargets == {61, 100}

\* no position: a message without a status payload or a target position
NoPos == 0 - 1

VARIABLES
    \* MotionGateway
    socket,             \* this.socket: "null" | "binding" | "bound" | "dead"
    isConnected,        \* this.isConnected
    reconnectTimer,     \* this.reconnectTimer is armed
    statusPollingTimer, \* this.statusPollingTimer is armed
    responseHandlers,   \* this.responseHandlers.has(kind), per response kind
    requests,           \* the unsettled promises of send(), in the order sent
    connects,           \* the promises created by connect(), by slot
    closePending,       \* a 'close' event of a closed socket is still to be delivered
    disconnectCalled,   \* disconnect() has been called (history)
    errorSeen,          \* a socket 'error' event has been delivered (history)
    \* MotionBlindsPlatform
    platform,           \* progress of initializeGateway
    blindAccessories,   \* macs with a registered MotionBlindAccessory
    statusLoop,         \* 0, or the index in MacSeq the status-poll round awaits
    initialFetch,       \* fetchInitialStatus: "idle" | "timer" | "loop" | "done"
    \* MotionBlindAccessory, one per mac
    tracker,
    stopTimers,         \* armed 500 ms post-stop timers, per mac
    \* scheduling
    run,                \* the microtask to run next, or NoRun
    inbound,            \* the datagram whose response handler is still to run
    \* observation
    ev                  \* what the last step did

vars == <<socket, isConnected, reconnectTimer, statusPollingTimer, responseHandlers,
          requests, connects, closePending, disconnectCalled, errorSeen,
          platform, blindAccessories, statusLoop, initialFetch,
          tracker, stopTimers, run, inbound, ev>>

gatewayVars == <<socket, isConnected, reconnectTimer, statusPollingTimer,
                 responseHandlers, requests, connects, closePending,
                 disconnectCalled, errorSeen>>

sendVars == <<responseHandlers, requests>>

connVars == <<socket, isConnected, reconnectTimer, statusPollingTimer, connects,
              closePending, disconnectCalled, errorSeen>>

platformVars == <<platform, blindAccessories, statusLoop, initialFetch>>

trackerVars == <<tracker, stopTimers>>

Abs(x) == IF x < 0 THEN -x ELSE x

Min(a, b) == IF a < b THEN a ELSE b

Max(a, b) == IF a > b THEN a ELSE b

(***************************************************************************)
(* Continuations: what awaits a promise.                                    *)
(***************************************************************************)
Cont(k, mac, target, cur, ix) ==
    [k |-> k, mac |-> mac, target |-> target, cur |-> cur, ix |-> ix]

NoCont == Cont("none", NoMac, NoPos, NoPos, 0)

NoRun == [cont |-> NoCont, ok |-> TRUE]

NoMsg == [msgType |-> "none", mac |-> NoMac, data |-> NoPos]

\* act: the step; mac: the device it is about; op, arg: the gateway operation it
\* called and the target position put in its message; tx: a datagram was handed to
\* the socket; ret: what a setTargetPosition call returned to the host; was: a
\* command of the device was in progress when a status reading for it came in.
Event(act, mac, op, arg, tx, ret) ==
    [act |-> act, mac |-> mac, op |-> op, arg |-> arg, tx |-> tx, ret |-> ret,
     was |-> FALSE]

\* a step that calls no gateway operation and returns nothing to the host
Quiet(act, mac) == Event(act, mac, "none", NoPos, FALSE, "none")

\* no microtask and no half-processed datagram: the event loop takes a macrotask
Idle == run = NoRun /\ inbound = NoMsg

(***************************************************************************)
(* MotionBlindAccessory: pure parts                                         *)
(***************************************************************************)
NewTracker ==
    [confirmedPosition     |-> 0,
     displayPosition       |-> 0,
     displayTargetPosition |-> 0,
     displayPositionState  |-> STATE_STOPPED,
     commandInProgress     |-> FALSE,
     commandTarget         |-> 0,
     commandDirection      |-> STATE_STOPPED,
     commandTimeoutTimer   |-> FALSE,
     pollTimers            |-> 0]

protocolToHomeKit(protocolPosition) == 100 - protocolPosition

\* the conversion left out: the host position is sent as it is
homeKitToProtocolSame(homeKitPosition) == homeKitPosition

homeKitToProtocol(homeKitPosition) == 100 - homeKitPosition

WithinTolerance(a, b) == Abs(a - b) <= POSITION_TOLERANCE

hasReachedTarget(t, position) == WithinTolerance(position, t.commandTarget)

clearCommandTimeout(t) == [t EXCEPT !.commandTimeoutTimer = FALSE]

cancelPolling(t) == [t EXCEPT !.pollTimers = 0]

schedulePolling(t) == [cancelPolling(t) EXCEPT !.pollTimers = NumPollTicks]

cancelCurrentCommand(t) ==
    cancelPolling(clearCommandTimeout([t EXCEPT !.commandInProgress = FALSE]))

\* completeCommand that leaves the target the host displays where it was
completeCommandKeepsTarget(t, finalPosition) ==
    cancelPolling(clearCommandTimeout(
        [t EXCEPT !.commandInProgress = FALSE,
                  !.confirmedPosition = finalPosition,
                  !.displayPosition = finalPosition,
                  !.displayPositionState = STATE_STOPPED]))

completeCommand(t, finalPosition) ==
    cancelPolling(clearCommandTimeout(
        [t EXCEPT !.commandInProgress = FALSE,
                  !.confirmedPosition = finalPosition,
                  !.displayPosition = finalPosition,
                  !.displayTargetPosition = finalPosition,
                  !.displayPositionState = STATE_STOPPED]))

\* handleCommandTimeout that leaves the displayed target at the command's target
handleCommandTimeoutKeepsTarget(t) ==
    cancelPolling(
        [t EXCEPT !.commandInProgress = FALSE,
                  !.displayPositionState = STATE_STOPPED])

\* the tracker's part of handleCommandTimeout; the status query is in DeadlineFires
handleCommandTimeout(t) ==
    cancelPolling(
        [t EXCEPT !.commandInProgress = FALSE,
                  !.displayPositionState = STATE_STOPPED,
                  !.displayTargetPosition = t.displayPosition])

\* trustGateway that leaves the displayed target alone
trustGatewayKeepsTarget(t, gatewayPosition) ==
    [t EXCEPT !.confirmedPosition = gatewayPosition,
              !.displayPosition = gatewayPosition,
              !.displayPositionState = STATE_STOPPED]

\* updateState, no command in progress: the gateway is trusted
trustGateway(t, gatewayPosition) ==
    [t EXCEPT !.confirmedPosition = gatewayPosition,
              !.displayPosition = gatewayPosition,
              !.displayTargetPosition = gatewayPosition,
              !.displayPositionState = STATE_STOPPED]

\* isProgressing that takes any reading that differs from the displayed position
isProgressingAnyChange(t, gatewayPosition) == gatewayPosition # t.displayPosition

isProgressing(t, gatewayPosition) ==
    IF t.commandDirection = STATE_INCREASING
    THEN gatewayPosition > t.displayPosition
    ELSE gatewayPosition < t.displayPosition

\* progress that is also taken as the confirmed position
trackProgressConfirms(t, gatewayPosition) ==
    IF isProgressing(t, gatewayPosition)
    THEN [t EXCEPT !.displayPosition = gatewayPosition,
                   !.confirmedPosition = gatewayPosition]
    ELSE t

\* updateState, command in progress, target not reached
trackProgress(t, gatewayPosition) ==
    IF isProgressing(t, gatewayPosition)
    THEN [t EXCEPT !.displayPosition = gatewayPosition]
    ELSE t

updateState(t, currentPosition) ==
    LET gatewayPosition == protocolToHomeKit(currentPosition) IN
    IF ~t.commandInProgress THEN trustGateway(t, gatewayPosition)
    ELSE IF hasReachedTarget(t, gatewayPosition) THEN completeCommand(t, gatewayPosition)
    ELSE trackProgress(t, gatewayPosition)

\* setTargetPosition: the reference position the target is compared with
currentPosOf(t) ==
    IF t.commandInProgress THEN t.displayPosition ELSE t.confirmedPosition

\* commandDirectionFor that compares with the middle of the range
commandDirectionForMidRange(targetPosition, currentPos) ==
    IF targetPosition > 50 THEN STATE_INCREASING ELSE STATE_DECREASING

commandDirectionFor(targetPosition, currentPos) ==
    IF targetPosition > currentPos THEN STATE_INCREASING ELSE STATE_DECREASING

\* the command set up without the fail-safe deadline
beginCommandNoDeadline(t, targetPosition, currentPos) ==
    LET dir == commandDirectionFor(targetPosition, currentPos) IN
    [clearCommandTimeout(t) EXCEPT
        !.commandInProgress = TRUE,
        !.commandTarget = targetPosition,
        !.commandDirection = dir,
        !.displayTargetPosition = targetPosition,
        !.displayPositionState = dir]

\* setTargetPosition: "Set up command tracking" up to the arming of the deadline
beginCommand(t, targetPosition, currentPos) ==
    LET dir == commandDirectionFor(targetPosition, currentPos) IN
    [clearCommandTimeout(t) EXCEPT
        !.commandInProgress = TRUE,
        !.commandTarget = targetPosition,
        !.commandDirection = dir,
        !.displayTargetPosition = targetPosition,
        !.displayPositionState = dir,
        !.commandTimeoutTimer = TRUE]

\* the catch block without clearing the deadline
revertCommandKeepsDeadline(t) ==
    [t EXCEPT !.commandInProgress = FALSE,
              !.displayPositionState = STATE_STOPPED,
              !.displayTargetPosition = t.displayPosition]

\* setTargetPosition: the catch block of the setPosition send ("Revert state")
revertCommand(t) ==
    clearCommandTimeout(
        [t EXCEPT !.commandInProgress = FALSE,
                  !.displayPositionState = STATE_STOPPED,
                  !.displayTargetPosition = t.displayPosition])

\* setTargetPosition: after the stop of a stop request ("Update state to stopped")
pinStopped(t, currentPos) ==
    [t EXCEPT !.displayTargetPosition = currentPos,
              !.displayPositionState = STATE_STOPPED]

(***************************************************************************)
(* MotionGateway.send and the operations built on it                        *)
(***************************************************************************)
\* A request is the promise of one send(), unsettled: its 5 s timer (timer: armed)
\* and its handler closure (handler: the closure is the table's entry for its
\* response kind).  The timers all have the same delay, so the order sent is the
\* order in which they fire.
Request(kind, cont) == [kind |-> kind, cont |-> cont, handler |-> TRUE, timer |-> TRUE]

ReqIds == 1..Len(requests)

HasFreeReq == Len(requests) < MaxRequests

RemoveAt(q, i) == SubSeq(q, 1, i - 1) \o SubSeq(q, i + 1, Len(q))

Connected == socket # "null" /\ isConnected

expectedResponse(kind) ==
    IF kind = "WriteDevice" THEN "WriteDeviceAck"
    ELSE IF kind = "ReadDevice" THEN "ReadDeviceAck"
    ELSE "GetDeviceListAck"

AckKinds == {"WriteDeviceAck", "ReadDeviceAck", "GetDeviceListAck"}

\* writeDevice clamps a target position before it is put in the message
clampPosition(targetPosition) ==
    IF targetPosition = NoPos THEN NoPos ELSE Max(0, Min(100, targetPosition))

\* The microtask that continues `cont` after its promise settled.  A promise nobody
\* awaits with an effect (getStatus(...).catch(() => {})) continues nothing.
Continue(cont, ok) ==
    IF cont.k = "none" THEN NoRun ELSE [cont |-> cont, ok |-> ok]

\* responseHandlers.delete(key) and the replacing half of responseHandlers.set(key, _):
\* no request's closure is the entry of `key` any more
Unregister(reqs, key) ==
    [i \in 1..Len(reqs) |->
        IF expectedResponse(reqs[i].kind) = key
        THEN [reqs[i] EXCEPT !.handler = FALSE] ELSE reqs[i]]

\* the request whose closure is the table's entry of `key`; 0 when the entry is
\* absent or is the closure of a request that is settled
Registered(key) ==
    LET regs == {i \in ReqIds :
                    requests[i].handler /\ expectedResponse(requests[i].kind) = key} IN
    IF responseHandlers[key] /\ regs # {} THEN CHOOSE i \in regs : TRUE ELSE 0

\* send(message) called for `cont`.  Not connected: the call throws, which the awaiting
\* code sees in its next microtask.  Connected: the timeout is armed, the handler is
\* registered under the expected response kind (replacing whatever was there) and the
\* datagram is handed to the socket, whose callback may report an error later
\* (SendError).
send(kind, op, mac, pos, cont) ==
    IF ~Connected
    THEN /\ UNCHANGED sendVars
         /\ run' = Continue(cont, FALSE)
    ELSE /\ HasFreeReq
         /\ requests' = Append(Unregister(requests, expectedResponse(kind)),
                               Request(kind, cont))
         /\ responseHandlers' =
              [responseHandlers EXCEPT ![expectedResponse(kind)] = TRUE]
         /\ run' = NoRun

writeDevice(mac, operation, targetPosition, cont) ==
    send("WriteDevice", operation, mac, clampPosition(targetPosition), cont)

stop(mac, cont) == writeDevice(mac, OP_STOP, NoPos, cont)

setPosition(mac, position, cont) == writeDevice(mac, OP_CLOSE, position, cont)

getStatus(mac, cont) == writeDevice(mac, OP_STATUS_QUERY, NoPos, cont)

getDeviceList(cont) == send("GetDeviceList", "list", NoMac, NoPos, cont)

\* the handler closure of request i runs: clearTimeout, delete, resolve
resolveRequest(i, key) ==
    /\ requests' = RemoveAt(Unregister(requests, key), i)
    /\ responseHandlers' = [responseHandlers EXCEPT ![key] = FALSE]
    /\ run' = Continue(requests[i].cont, TRUE)

\* the timeout closure without the delete
timeoutRequestKeepsEntry(i) ==
    /\ requests' = RemoveAt(requests, i)
    /\ UNCHANGED responseHandlers
    /\ run' = Continue(requests[i].cont, FALSE)

\* the timeout closure of request i runs: delete, reject
timeoutRequest(i) ==
    LET key == expectedResponse(requests[i].kind) IN
    /\ requests' = RemoveAt(Unregister(requests, key), i)
    /\ responseHandlers' = [responseHandlers EXCEPT ![key] = FALSE]
    /\ run' = Continue(requests[i].cont, FALSE)

\* the send callback of request i runs with an error: clearTimeout, delete, reject
failRequest(i) ==
    LET key == expectedResponse(requests[i].kind) IN
    /\ requests' = RemoveAt(Unregister(requests, key), i)
    /\ responseHandlers' = [responseHandlers EXCEPT ![key] = FALSE]
    /\ run' = Continue(requests[i].cont, FALSE)

\* what a step that calls one gateway operation did: tx says whether a datagram
\* was handed to the socket, which send() does only when connected
Called(act, mac, op, arg, ret) == Event(act, mac, op, arg, Connected, ret)

(***************************************************************************)
(* MotionGateway: connection, reconnection, disconnect                      *)
(***************************************************************************)
NoConnect == [owner |-> "none", pending |-> FALSE, timer |-> FALSE, cur |-> FALSE]

ConnIds == 1..MaxConnects

FreeConns == {i \in ConnIds : connects[i] = NoConnect}

FreshConn == CHOOSE i \in FreeConns : \A j \in FreeConns : i <= j

\* a connect() promise that is settled and whose 10 s timer is gone holds nothing
Collect(c) == IF ~c.pending /\ ~c.timer THEN NoConnect ELSE c

\* connect() called for `cont`: returns at once when connected; otherwise a new
\* socket replaces this.socket (the old one is not closed), bind is started and the
\* 10 s connection timer is armed.
connect(cont) ==
    IF isConnected
    THEN /\ UNCHANGED <<socket, connects>>
         /\ run' = Continue(cont, TRUE)
    ELSE /\ FreeConns # {}
         /\ connects' = [i \in ConnIds |->
                IF i = FreshConn
                THEN [owner |-> cont.k, pending |-> TRUE, timer |-> TRUE, cur |-> TRUE]
                ELSE [connects[i] EXCEPT !.cur = FALSE]]
         /\ socket' = "binding"
         /\ run' = NoRun

\* the bind callback of this.socket: isConnected = true; resolve()
BindOk ==
    /\ Idle /\ socket = "binding"
    /\ socket' = "bound"
    /\ isConnected' = TRUE
    /\ LET waiting == {i \in ConnIds : connects[i].cur /\ connects[i].pending} IN
         /\ waiting # {} => HasFreeReq
         /\ connects' = [i \in ConnIds |->
                IF i \in waiting THEN Collect([connects[i] EXCEPT !.pending = FALSE])
                ELSE connects[i]]
         /\ run' = IF waiting = {} THEN NoRun
                   ELSE Continue(Cont(connects[CHOOSE i \in waiting : TRUE].owner,
                                      NoMac, NoPos, NoPos, 0), TRUE)
    /\ ev' = Quiet("bind", NoMac)
    /\ UNCHANGED <<reconnectTimer, statusPollingTimer, closePending, disconnectCalled,
                   errorSeen, sendVars, platformVars, trackerVars, inbound>>

\* the 10 s timer of a connect(): rejects when the transport is not connected.  A
\* promise left pending by it can only be settled by the bind of its own socket.
ConnectTimeout(i) ==
    /\ Idle /\ connects[i].timer
    /\ LET c == connects[i]
           rejects == c.pending /\ ~isConnected
           hung == c.pending /\ isConnected /\ ~(c.cur /\ socket = "binding") IN
         /\ connects' = [connects EXCEPT ![i] =
                IF rejects \/ hung THEN NoConnect
                ELSE Collect([c EXCEPT !.timer = FALSE])]
         /\ run' = IF rejects
                   THEN Continue(Cont(c.owner, NoMac, NoPos, NoPos, 0), FALSE)
                   ELSE NoRun
    /\ ev' = Quiet("connectTimeout", NoMac)
    /\ UNCHANGED <<socket, isConnected, reconnectTimer, statusPollingTimer,
                   closePending, disconnectCalled, errorSeen, sendVars, platformVars,
                   trackerVars, inbound>>

\* scheduleReconnect that arms nothing
scheduleReconnectNoTimer == UNCHANGED reconnectTimer

\* scheduleReconnect(): arms the 5 s timer unless it is armed
scheduleReconnect == reconnectTimer' = TRUE

\* the 'error' event of this.socket
SocketError ==
    /\ Idle /\ socket \in {"binding", "bound"}
    /\ isConnected' = FALSE
    /\ scheduleReconnect
    /\ socket' = IF socket = "binding" THEN "dead" ELSE socket
    /\ errorSeen' = TRUE
    /\ ev' = Quiet("socketError", NoMac)
    /\ UNCHANGED <<statusPollingTimer, connects, closePending, disconnectCalled,
                   sendVars, platformVars, trackerVars, run, inbound>>

\* the reconnect timer's callback, up to its first await
ReconnectTimerFires ==
    /\ Idle /\ reconnectTimer
    /\ reconnectTimer' = FALSE
    /\ isConnected => HasFreeReq
    /\ connect(Cont("reconnConnect", NoMac, NoPos, NoPos, 0))
    /\ ev' = Quiet("reconnect", NoMac)
    /\ UNCHANGED <<isConnected, statusPollingTimer, closePending, disconnectCalled,
                   errorSeen, sendVars, platformVars, trackerVars, inbound>>

\* disconnect()
Disconnect ==
    /\ Idle /\ platform # "new"
    /\ reconnectTimer' = FALSE
    /\ statusPollingTimer' = FALSE
    /\ closePending' = (closePending \/ socket # "null")
    /\ socket' = "null"
    /\ isConnected' = FALSE
    /\ disconnectCalled' = TRUE
    /\ ev' = Quiet("disconnect", NoMac)
    /\ UNCHANGED <<connects, errorSeen, sendVars, platformVars, trackerVars, run, inbound>>

\* the 'close' event of a socket closed by disconnect()
CloseEvent ==
    /\ Idle /\ closePending
    /\ closePending' = FALSE
    /\ isConnected' = FALSE
    /\ ev' = Quiet("close", NoMac)
    /\ UNCHANGED <<socket, reconnectTimer, statusPollingTimer, connects,
                   disconnectCalled, errorSeen, sendVars, platformVars, trackerVars,
                   run, inbound>>

(***************************************************************************)
(* MotionGateway: inbound datagrams, request timeouts, send errors          *)
(***************************************************************************)
MessageKinds == {"WriteDeviceAck", "ReadDeviceAck", "GetDeviceListAck", "Report"}

\* status acknowledgments for the addresses `macs`, with and without a status payload
StatusMessages(macs, readings) ==
    [msgType : {"WriteDeviceAck", "ReadDeviceAck"}, mac : macs, data : readings]
    \cup [msgType : {"WriteDeviceAck"}, mac : macs, data : {NoPos}]

\* messages that carry no device status
OtherMessages ==
    [msgType : {"GetDeviceListAck", "Report"}, mac : {NoMac}, data : {NoPos}]

Messages == StatusMessages(Macs \cup {UnknownMac}, ProtocolReadings) \cup OtherMessages

\* telemetry only from the acknowledgment of a write
IsTelemetryOfWrite(msg) ==
    /\ msg.msgType = "WriteDeviceAck"
    /\ msg.mac # NoMac
    /\ msg.data # NoPos

IsTelemetry(msg) ==
    /\ msg.msgType \in {"WriteDeviceAck", "ReadDeviceAck"}
    /\ msg.mac # NoMac
    /\ msg.data # NoPos

\* a listener that hands the reading to every accessory
onBlindStateToAll(trk, mac, data) ==
    [m \in DOMAIN trk |->
        IF m \in blindAccessories THEN updateState(trk[m], data) ELSE trk[m]]

\* the platform's 'blindState' listener
onBlindState(trk, mac, data) ==
    IF mac \in blindAccessories
    THEN [trk EXCEPT ![mac] = updateState(trk[mac], data)]
    ELSE trk

\* handleMessage, first half: the telemetry event
Receive(msg) ==
    /\ Idle /\ socket = "bound"
    /\ tracker' = IF IsTelemetry(msg) THEN onBlindState(tracker, msg.mac, msg.data)
                  ELSE tracker
    /\ inbound' = msg
    /\ ev' = [Event("message", msg.mac, "none", msg.data, FALSE, "none") EXCEPT
                !.was = IsTelemetry(msg) /\ msg.mac \in blindAccessories
                        /\ tracker[msg.mac].commandInProgress]
    /\ UNCHANGED <<gatewayVars, platformVars, stopTimers, run>>

\* handleMessage, second half: the response handler registered for the message kind
Dispatch ==
    /\ inbound # NoMsg
    /\ inbound' = NoMsg
    /\ LET key == inbound.msgType IN
         IF key \in AckKinds /\ responseHandlers[key]
         THEN IF Registered(key) # 0
              THEN resolveRequest(Registered(key), key)
              ELSE /\ responseHandlers' = [responseHandlers EXCEPT ![key] = FALSE]
                   /\ UNCHANGED <<requests, run>>
         ELSE UNCHANGED <<sendVars, run>>
    /\ ev' = Event("dispatch", inbound.mac, "none", inbound.data, FALSE, "none")
    /\ UNCHANGED <<connVars, platformVars, trackerVars>>

\* timers that fire only for requests whose closure is still the table's entry
NextTimerOfRegistered ==
    LET armed == {i \in ReqIds : requests[i].timer /\ requests[i].handler} IN
    IF armed = {} THEN 0 ELSE CHOOSE i \in armed : \A j \in armed : i <= j

\* the request whose 5 s timer fires next: the oldest one armed
NextTimer ==
    LET armed == {i \in ReqIds : requests[i].timer} IN
    IF armed = {} THEN 0 ELSE CHOOSE i \in armed : \A j \in armed : i <= j

\* the 5 s timer of a send()
RequestTimeout ==
    /\ Idle /\ NextTimer # 0
    /\ timeoutRequest(NextTimer)
    /\ ev' = Quiet("requestTimeout", requests[NextTimer].cont.mac)
    /\ UNCHANGED <<connVars, platformVars, trackerVars, inbound>>

\* the socket's send callback reporting an error.  The callback of a datagram comes
\* once, at a time the event loop chooses; it is taken to come before the request is
\* settled otherwise, and a callback without error does nothing.
SendError(i) ==
    /\ Idle /\ i \in ReqIds
    /\ failRequest(i)
    /\ ev' = Quiet("sendError", requests[i].cont.mac)
    /\ UNCHANGED <<connVars, platformVars, trackerVars, inbound>>

(***************************************************************************)
(* MotionBlindAccessory: calls from the host and timers                     *)
(***************************************************************************)
SetTracker(m, t) == tracker' = [tracker EXCEPT ![m] = t]

\* stop requests of m whose 500 ms timer is armed or will be armed when they return
StopsUnderWay(m) ==
    stopTimers[m]
    + Cardinality({i \in ReqIds : requests[i].cont.k = "stcStop" /\ requests[i].cont.mac = m})

\* setTargetPosition(value), up to its first await or its return
SetTargetPosition(m, value) ==
    /\ Idle /\ m \in blindAccessories
    /\ LET t == tracker[m]
           currentPos == currentPosOf(t)
           near == WithinTolerance(value, currentPos) IN
         \/ \* a stop request: target is about the displayed position while moving
            /\ t.commandInProgress /\ near
            /\ StopsUnderWay(m) < MaxStopTimers
            /\ SetTracker(m, cancelCurrentCommand(t))
            /\ stop(m, Cont("stcStop", m, value, currentPos, 0))
            /\ ev' = Called("setTargetPosition", m, "stop", NoPos, "none")
         \/ \* already at the target
            /\ ~t.commandInProgress /\ near
            /\ SetTracker(m, [t EXCEPT !.displayTargetPosition = value])
            /\ UNCHANGED <<sendVars, run>>
            /\ ev' = Event("setTargetPosition", m, "none", NoPos, FALSE, "ok")
         \/ \* a new target while moving: cancel, stop first
            /\ t.commandInProgress /\ ~near
            /\ SetTracker(m, cancelCurrentCommand(t))
            /\ stop(m, Cont("stcRedirect", m, value, currentPos, 0))
            /\ ev' = Called("setTargetPosition", m, "stop", NoPos, "none")
         \/ \* a new movement command
            /\ ~t.commandInProgress /\ ~near
            /\ SetTracker(m, beginCommand(t, value, currentPos))
            /\ setPosition(m, homeKitToProtocol(value),
                           Cont("stcSetPos", m, value, currentPos, 0))
            /\ ev' = Called("setTargetPosition", m, "setPosition",
                            clampPosition(homeKitToProtocol(value)), "none")
    /\ UNCHANGED <<connVars, platformVars, stopTimers, inbound>>

\* setTargetPosition after the stop of a stop request
ResumeStop ==
    /\ run.cont.k = "stcStop"
    /\ LET m == run.cont.mac IN
         /\ SetTracker(m, pinStopped(tracker[m], run.cont.cur))
         /\ stopTimers' = [stopTimers EXCEPT ![m] = @ + 1]
         /\ ev' = Event("stcStop", m, "none", NoPos, FALSE, "ok")
    /\ run' = NoRun
    /\ UNCHANGED <<gatewayVars, platformVars, inbound>>

\* the stop before a new command without its try/catch: a failed stop ends the call
ResumeRedirectUncaught ==
    /\ run.cont.k = "stcRedirect"
    /\ LET m == run.cont.mac
           value == run.cont.target IN
         IF run.ok
         THEN /\ SetTracker(m, beginCommand(tracker[m], value, run.cont.cur))
              /\ setPosition(m, homeKitToProtocol(value),
                             Cont("stcSetPos", m, value, run.cont.cur, 0))
              /\ ev' = Called("stcRedirect", m, "setPosition",
                              clampPosition(homeKitToProtocol(value)), "none")
         ELSE /\ UNCHANGED <<tracker, sendVars>>
              /\ run' = NoRun
              /\ ev' = Event("stcRedirect", m, "none", NoPos, FALSE, "error")
    /\ UNCHANGED <<connVars, platformVars, stopTimers, inbound>>

\* setTargetPosition after the stop that precedes a new command
ResumeRedirect ==
    /\ run.cont.k = "stcRedirect"
    /\ LET m == run.cont.mac
           value == run.cont.target IN
         /\ SetTracker(m, beginCommand(tracker[m], value, run.cont.cur))
         /\ setPosition(m, homeKitToProtocol(value),
                        Cont("stcSetPos", m, value, run.cont.cur, 0))
         /\ ev' = Called("stcRedirect", m, "setPosition",
                         clampPosition(homeKitToProtocol(value)), "none")
    /\ UNCHANGED <<connVars, platformVars, stopTimers, inbound>>

\* setTargetPosition after the setPosition send: polling, or the catch block
ResumeSetPosition ==
    /\ run.cont.k = "stcSetPos"
    /\ LET m == run.cont.mac IN
         IF run.ok
         THEN /\ SetTracker(m, schedulePolling(tracker[m]))
              /\ ev' = Event("stcSetPos", m, "none", NoPos, FALSE, "ok")
         ELSE /\ SetTracker(m, revertCommand(tracker[m]))
              /\ ev' = Event("stcSetPos", m, "none", NoPos, FALSE, "error")
    /\ run' = NoRun
    /\ UNCHANGED <<gatewayVars, platformVars, stopTimers, inbound>>

\* the 5 s of a pending setPosition send of m end before the 90 s deadline armed
\* just before that send
DeadlineMayFire(m) ==
    REQUEST_TIMEOUT < MAX_MOVEMENT_TIMEOUT =>
        \A i \in ReqIds : ~(requests[i].cont.k = "stcSetPos" /\ requests[i].cont.mac = m)

\* the movement deadline's callback
DeadlineFires(m) ==
    /\ Idle /\ tracker[m].commandTimeoutTimer /\ DeadlineMayFire(m)
    /\ LET t == [tracker[m] EXCEPT !.commandTimeoutTimer = FALSE] IN
         IF t.commandInProgress
         THEN /\ SetTracker(m, handleCommandTimeout(t))
              /\ getStatus(m, NoCont)
              /\ ev' = Called("deadline", m, "getStatus", NoPos, "none")
         ELSE /\ SetTracker(m, t)
              /\ UNCHANGED <<sendVars, run>>
              /\ ev' = Quiet("deadline", m)
    /\ UNCHANGED <<connVars, platformVars, stopTimers, inbound>>

\* one tick of the poll schedule
PollTick(m) ==
    /\ Idle /\ tracker[m].pollTimers > 0
    /\ SetTracker(m, [tracker[m] EXCEPT !.pollTimers = @ - 1])
    /\ IF tracker[m].commandInProgress
       THEN /\ getStatus(m, NoCont)
            /\ ev' = Called("pollTick", m, "getStatus", NoPos, "none")
       ELSE /\ UNCHANGED <<sendVars, run>>
            /\ ev' = Quiet("pollTick", m)
    /\ UNCHANGED <<connVars, platformVars, stopTimers, inbound>>

\* the 500 ms timer armed by a stop request
StopTimerFires(m) ==
    /\ Idle /\ stopTimers[m] > 0
    /\ stopTimers' = [stopTimers EXCEPT ![m] = @ - 1]
    /\ getStatus(m, NoCont)
    /\ ev' = Called("stopTimer", m, "getStatus", NoPos, "none")
    /\ UNCHANGED <<connVars, platformVars, tracker, inbound>>

(***************************************************************************)
(* MotionBlindsPlatform and the gateway's loops                             *)
(***************************************************************************)
InitializeGateway ==
    /\ Idle /\ platform = "new"
    /\ platform' = "connecting"
    /\ connect(Cont("initConnect", NoMac, NoPos, NoPos, 0))
    /\ ev' = Quiet("initializeGateway", NoMac)
    /\ UNCHANGED <<isConnected, reconnectTimer, statusPollingTimer, closePending,
                   disconnectCalled, errorSeen, sendVars, blindAccessories, statusLoop,
                   initialFetch, trackerVars, inbound>>

ResumeInitConnect ==
    /\ run.cont.k = "initConnect"
    /\ IF run.ok
       THEN /\ platform' = "enumerating"
            /\ getDeviceList(Cont("initEnum", NoMac, NoPos, NoPos, 0))
            /\ ev' = Called("initConnect", NoMac, "getDeviceList", NoPos, "none")
       ELSE /\ platform' = "failed"
            /\ run' = NoRun
            /\ UNCHANGED sendVars
            /\ ev' = Quiet("initConnect", NoMac)
    /\ UNCHANGED <<connVars, blindAccessories, statusLoop, initialFetch,
                   trackerVars, inbound>>

\* after the device list: discoverDevices, fetchInitialStatus, startStatusPolling
ResumeInitEnum ==
    /\ run.cont.k = "initEnum"
    /\ IF run.ok
       THEN /\ platform' = "done"
            /\ blindAccessories' = Macs
            /\ initialFetch' = "timer"
            /\ statusPollingTimer' = TRUE
       ELSE /\ platform' = "failed"
            /\ UNCHANGED <<blindAccessories, initialFetch, statusPollingTimer>>
    /\ run' = NoRun
    /\ ev' = Quiet("initEnum", NoMac)
    /\ UNCHANGED <<socket, isConnected, reconnectTimer, connects, closePending,
                   disconnectCalled, errorSeen, sendVars, statusLoop, trackerVars, inbound>>

\* the reconnect callback after connect(): enumerate, or catch and reschedule
ResumeReconnConnect ==
    /\ run.cont.k = "reconnConnect"
    /\ IF run.ok
       THEN /\ getDeviceList(Cont("reconnEnum", NoMac, NoPos, NoPos, 0))
            /\ ev' = Called("reconnConnect", NoMac, "getDeviceList", NoPos, "none")
            /\ UNCHANGED reconnectTimer
       ELSE /\ scheduleReconnect
            /\ run' = NoRun
            /\ UNCHANGED sendVars
            /\ ev' = Quiet("reconnConnect", NoMac)
    /\ UNCHANGED <<socket, isConnected, statusPollingTimer, connects, closePending,
                   disconnectCalled, errorSeen, platformVars, trackerVars, inbound>>

\* the reconnect callback after getDeviceList(): done, or catch and reschedule
ResumeReconnEnum ==
    /\ run.cont.k = "reconnEnum"
    /\ IF run.ok THEN UNCHANGED reconnectTimer ELSE scheduleReconnect
    /\ run' = NoRun
    /\ ev' = Quiet("reconnEnum", NoMac)
    /\ UNCHANGED <<socket, isConnected, statusPollingTimer, connects, closePending,
                   disconnectCalled, errorSeen, sendVars, platformVars, trackerVars, inbound>>

\* a tick of the status-polling interval starts a round over the device list
StatusPollTick ==
    /\ Idle /\ statusPollingTimer /\ statusLoop = 0
    /\ statusLoop' = 1
    /\ getStatus(MacSeq[1], Cont("statusLoop", MacSeq[1], NoPos, NoPos, 1))
    /\ ev' = Called("statusPoll", MacSeq[1], "getStatus", NoPos, "none")
    /\ UNCHANGED <<connVars, platform, blindAccessories, initialFetch,
                   trackerVars, inbound>>

\* the round without the try/catch around the query: a failure ends the round
ResumeStatusLoopUncaught ==
    /\ run.cont.k = "statusLoop"
    /\ LET ix == run.cont.ix IN
         IF ix < Len(MacSeq) /\ run.ok
         THEN /\ statusLoop' = ix + 1
              /\ getStatus(MacSeq[ix + 1],
                           Cont("statusLoop", MacSeq[ix + 1], NoPos, NoPos, ix + 1))
              /\ ev' = Called("statusLoop", MacSeq[ix + 1], "getStatus", NoPos, "none")
         ELSE /\ statusLoop' = 0
              /\ run' = NoRun
              /\ UNCHANGED sendVars
              /\ ev' = Quiet("statusLoop", NoMac)
    /\ UNCHANGED <<connVars, platform, blindAccessories, initialFetch,
                   trackerVars, inbound>>

\* the round goes on with the next device, whether the query failed or not
ResumeStatusLoop ==
    /\ run.cont.k = "statusLoop"
    /\ LET ix == run.cont.ix IN
         IF ix < Len(MacSeq)
         THEN /\ statusLoop' = ix + 1
              /\ getStatus(MacSeq[ix + 1],
                           Cont("statusLoop", MacSeq[ix + 1], NoPos, NoPos, ix + 1))
              /\ ev' = Called("statusLoop", MacSeq[ix + 1], "getStatus", NoPos, "none")
         ELSE /\ statusLoop' = 0
              /\ run' = NoRun
              /\ UNCHANGED sendVars
              /\ ev' = Quiet("statusLoop", NoMac)
    /\ UNCHANGED <<connVars, platform, blindAccessories, initialFetch,
                   trackerVars, inbound>>

\* fetchInitialStatus after its 1 s wait
InitialFetchTimer ==
    /\ Idle /\ initialFetch = "timer"
    /\ initialFetch' = "loop"
    /\ getStatus(MacSeq[1], Cont("initialFetch", MacSeq[1], NoPos, NoPos, 1))
    /\ ev' = Called("initialFetch", MacSeq[1], "getStatus", NoPos, "none")
    /\ UNCHANGED <<connVars, platform, blindAccessories, statusLoop,
                   trackerVars, inbound>>

ResumeInitialFetch ==
    /\ run.cont.k = "initialFetch"
    /\ LET ix == run.cont.ix IN
         IF ix < Len(MacSeq)
         THEN /\ getStatus(MacSeq[ix + 1],
                           Cont("initialFetch", MacSeq[ix + 1], NoPos, NoPos, ix + 1))
              /\ ev' = Called("initialFetch", MacSeq[ix + 1], "getStatus", NoPos, "none")
              /\ UNCHANGED initialFetch
         ELSE /\ initialFetch' = "done"
              /\ run' = NoRun
              /\ UNCHANGED sendVars
              /\ ev' = Quiet("initialFetch", NoMac)
    /\ UNCHANGED <<connVars, platform, blindAccessories, statusLoop,
                   trackerVars, inbound>>

(***************************************************************************)
(* The specification                                                        *)
(***************************************************************************)
Init ==
    /\ socket = "null"
    /\ isConnected = FALSE
    /\ reconnectTimer = FALSE
    /\ statusPollingTimer = FALSE
    /\ responseHandlers = [k \in AckKinds |-> FALSE]
    /\ requests = <<>>
    /\ connects = [i \in ConnIds |-> NoConnect]
    /\ closePending = FALSE
    /\ disconnectCalled = FALSE
    /\ errorSeen = FALSE
    /\ platform = "new"
    /\ blindAccessories = {}
    /\ statusLoop = 0
    /\ initialFetch = "idle"
    /\ tracker = [m \in Macs |-> NewTracker]
    /\ stopTimers = [m \in Macs |-> 0]
    /\ run = NoRun
    /\ inbound = NoMsg
    /\ ev = Quiet("init", NoMac)

Next ==
    \/ InitializeGateway
    \/ BindOk
    \/ \E i \in ConnIds : ConnectTimeout(i)
    \/ SocketError
    \/ ReconnectTimerFires
    \/ Disconnect
    \/ CloseEvent
    \/ \E msg \in Messages : Receive(msg)
    \/ Dispatch
    \/ RequestTimeout
    \/ \E i \in 1..MaxRequests : SendError(i)
    \/ \E m \in Macs, value \in HostTargets : SetTargetPosition(m, value)
    \/ \E m \in Macs : DeadlineFires(m)
    \/ \E m \in Macs : PollTick(m)
    \/ \E m \in Macs : StopTimerFires(m)
    \/ StatusPollTick
    \/ InitialFetchTimer
    \/ ResumeStop
    \/ ResumeRedirect
    \/ ResumeSetPosition
    \/ ResumeInitConnect
    \/ ResumeInitEnum
    \/ ResumeReconnConnect
    \/ ResumeReconnEnum
    \/ ResumeStatusLoop
    \/ ResumeInitialFetch

Spec == Init /\ [][Next]_vars

(***************************************************************************)
(* The whole of Next is too large to enumerate.  Two parts of it are        *)
(* checked, each with all the actions of the component it is about and a    *)
(* limited environment.                                                     *)
(***************************************************************************)

\* The tracker of the first device under set-target requests, status readings and
\* its timers, over a transport that connects once and may be disconnected.
TrackerMac == MacSeq[1]

TrackerMessages == StatusMessages({TrackerMac}, ProtocolReadings) \cup OtherMessages

NextTracker ==
    \/ InitializeGateway
    \/ BindOk
    \/ Disconnect
    \/ \E msg \in TrackerMessages : Receive(msg)
    \/ Dispatch
    \/ RequestTimeout
    \/ \E i \in 1..MaxRequests : SendError(i)
    \/ \E value \in HostTargets : SetTargetPosition(TrackerMac, value)
    \/ DeadlineFires(TrackerMac)
    \/ PollTick(TrackerMac)
    \/ StopTimerFires(TrackerMac)
    \/ ResumeStop
    \/ ResumeRedirect
    \/ ResumeSetPosition
    \/ ResumeInitConnect
    \/ ResumeInitEnum

SpecTracker == Init /\ [][NextTracker]_vars

\* The transport: connection, reconnection, disconnect, the pending-request table
\* and the loops that poll every device, with the trackers idle.
GatewayMessages ==
    StatusMessages({TrackerMac}, {2}) \cup OtherMessages

NextGateway ==
    \/ InitializeGateway
    \/ BindOk
    \/ \E i \in ConnIds : ConnectTimeout(i)
    \/ SocketError
    \/ ReconnectTimerFires
    \/ Disconnect
    \/ CloseEvent
    \/ \E msg \in GatewayMessages : Receive(msg)
    \/ Dispatch
    \/ RequestTimeout
    \/ \E i \in 1..MaxRequests : SendError(i)
    \/ StatusPollTick
    \/ InitialFetchTimer
    \/ ResumeInitConnect
    \/ ResumeInitEnum
    \/ ResumeReconnConnect
    \/ ResumeReconnEnum
    \/ ResumeStatusLoop
    \/ ResumeInitialFetch

SpecGateway == Init /\ [][NextGateway]_vars

\* The telemetry path: status acknowledgments for both devices and for an address
\* no accessory is registered for, with a protocol position inside and one outside
\* 0..100, taken in by trackers that are idle or moving.
TelemetryReadings == {40, 101}

TelemetryTargets == {61}

TelemetryMessages ==
    StatusMessages(Macs \cup {UnknownMac}, TelemetryReadings) \cup OtherMessages

NextTelemetry ==
    \/ InitializeGateway
    \/ BindOk
    \/ \E msg \in TelemetryMessages : Receive(msg)
    \/ Dispatch
    \/ RequestTimeout
    \/ \E m \in Macs, value \in TelemetryTargets : SetTargetPosition(m, value)
    \/ \E m \in Macs : DeadlineFires(m)
    \/ \E m \in Macs : PollTick(m)
    \/ ResumeRedirect
    \/ ResumeSetPosition
    \/ ResumeInitConnect
    \/ ResumeInitEnum

SpecTelemetry == Init /\ [][NextTelemetry]_vars

(***************************************************************************)
(* Claims                                                                   *)
(***************************************************************************)
\* this step is updateState of m's tracker with the reading of the datagram taken in
ReadingStep(m) ==
    /\ inbound = NoMsg /\ inbound' # NoMsg
    /\ IsTelemetry(inbound') /\ inbound'.mac = m
    /\ m \in blindAccessories

\* the host value of the reading taken in by this step
ReadingHost == 100 - inbound'.data

\* this step runs setTargetPosition's "Set up command tracking" for m
StartsCommand(m) ==
    /\ ev'.mac = m
    /\ \/ ev'.act = "setTargetPosition" /\ ev'.op = "setPosition"
       \/ ev'.act = "stcRedirect"

\* C1: a reading within 2 of the commanded target, taken in while a command is in
\* progress, ends the command with confirmed, displayed and target position equal
\* to the reading and motion-state stopped; no reading puts a tracker without a
\* command in progress back in progress: only a set-target request does.
C1_CompletionOnReading ==
    [][\A m \in Macs :
        /\ (ReadingStep(m) /\ tracker[m].commandInProgress
                /\ Abs(ReadingHost - tracker[m].commandTarget) <= 2)
             => /\ ~tracker'[m].commandInProgress
                /\ tracker'[m].confirmedPosition = ReadingHost
                /\ tracker'[m].displayPosition = ReadingHost
                /\ tracker'[m].displayTargetPosition = ReadingHost
                /\ tracker'[m].displayPositionState = STATE_STOPPED
        /\ (ReadingStep(m) /\ ~tracker[m].commandInProgress)
             => ~tracker'[m].commandInProgress
        /\ (~tracker[m].commandInProgress /\ tracker'[m].commandInProgress)
             => StartsCommand(m)
      ]_vars

\* a command of the first device has just been completed by a reading
C1_Witness ==
    /\ ev.act = "message" /\ ev.mac = TrackerMac /\ ev.was
    /\ ~tracker[TrackerMac].commandInProgress
    /\ tracker[TrackerMac].displayPosition = 100 - ev.arg
    /\ tracker[TrackerMac].displayPosition # tracker[TrackerMac].commandTarget

\* the reading taken in by this step regresses relative to m's commanded direction
Regresses(m) ==
    IF tracker[m].commandDirection = STATE_INCREASING
    THEN ReadingHost < tracker[m].displayPosition
    ELSE ReadingHost > tracker[m].displayPosition

\* C2 as stated: while a command is in progress, a reading that regresses relative to
\* the commanded direction never changes the displayed position.
C2_RegressNeverChangesDisplay ==
    [][\A m \in Macs :
        (ReadingStep(m) /\ tracker[m].commandInProgress /\ Regresses(m))
          => tracker'[m].displayPosition = tracker[m].displayPosition
      ]_vars

\* C2 amended: while a command is in progress, a reading that regresses relative to
\* the commanded direction and is not within 2 of the commanded target never changes
\* the displayed position.
C2_RegressOutsideToleranceIgnored ==
    [][\A m \in Macs :
        (ReadingStep(m) /\ tracker[m].commandInProgress /\ Regresses(m)
            /\ Abs(ReadingHost - tracker[m].commandTarget) > 2)
          => tracker'[m].displayPosition = tracker[m].displayPosition
      ]_vars

\* a regressing reading outside the tolerance has just been ignored while the first
\* device moves up
C2_Witness ==
    /\ ev.act = "message" /\ ev.mac = TrackerMac /\ ev.was
    /\ tracker[TrackerMac].commandInProgress
    /\ tracker[TrackerMac].commandDirection = STATE_INCREASING
    /\ 100 - ev.arg < tracker[TrackerMac].displayPosition

\* the continuation a step left behind: in the microtask to run next, or in the
\* request it sent last
LeftCont == IF run' # NoRun THEN run'.cont
            ELSE IF Len(requests') > Len(requests)
                 THEN requests'[Len(requests')].cont ELSE NoCont

\* this step handed exactly one datagram to the socket, for a request nobody awaits
\* with an effect, or none because the transport is not connected
OneQuery ==
    IF Connected
    THEN /\ Len(requests') = Len(requests) + 1
         /\ requests'[Len(requests')].kind = "WriteDevice"
         /\ requests'[Len(requests')].cont = NoCont
         /\ \A i \in 1..Len(requests) : requests'[i].cont = requests[i].cont
    ELSE requests' = requests

\* C3: when the 90 s deadline of a command fires while the command is in progress,
\* the command ends: no command in progress, displayed target equal to the displayed
\* position of that moment, motion-state stopped, and exactly one status query
\* (getStatus) is issued for the device; a command in progress always has its
\* deadline armed.
C3_DeadlineEndsCommand ==
    [][\A m \in Macs :
        /\ (ev'.act = "deadline" /\ ev'.mac = m /\ tracker[m].commandInProgress)
             => /\ ~tracker'[m].commandInProgress
                /\ tracker'[m].displayTargetPosition = tracker[m].displayPosition
                /\ tracker'[m].displayPosition = tracker[m].displayPosition
                /\ tracker'[m].displayPositionState = STATE_STOPPED
                /\ ev'.op = "getStatus"
                /\ OneQuery
        /\ tracker'[m].commandInProgress => tracker'[m].commandTimeoutTimer
      ]_vars

\* the deadline of the first device has just ended a command whose target was not
\* reached, and the status query went out
C3_Witness ==
    /\ ev.act = "deadline" /\ ev.mac = TrackerMac /\ ev.op = "getStatus" /\ ev.tx
    /\ ~tracker[TrackerMac].commandInProgress
    /\ tracker[TrackerMac].displayPositionState = STATE_STOPPED
    /\ tracker[TrackerMac].displayTargetPosition # tracker[TrackerMac].commandTarget

\* C4 as stated: a set-target request within 2 of the displayed position while a
\* command is in progress sends stop and no setPosition, ends the command, and
\* when it returns a status query is scheduled, the call has not failed, the
\* displayed target equals the displayed position and motion-state is stopped.
C4_StopRequest ==
    [][\A m \in Macs :
        /\ (ev'.act = "setTargetPosition" /\ ev'.mac = m /\ tracker[m].commandInProgress
                /\ LeftCont.k = "stcStop")
             => /\ ev'.op = "stop"
                /\ ~tracker'[m].commandInProgress
                /\ WithinTolerance(LeftCont.target, tracker[m].displayPosition)
        /\ (ev'.act = "stcStop" /\ ev'.mac = m)
             => /\ ev'.ret = "ok" /\ ev'.op = "none" /\ requests' = requests
                /\ stopTimers'[m] = stopTimers[m] + 1
                /\ tracker'[m].displayTargetPosition = tracker'[m].displayPosition
                /\ tracker'[m].displayPositionState = STATE_STOPPED
      ]_vars

\* C5: a reading taken in while no command is in progress is trusted: confirmed,
\* displayed and target position become 100 - protocol position and motion-state
\* becomes stopped.
C5_IdleTrustsReading ==
    [][\A m \in Macs :
        (ReadingStep(m) /\ ~tracker[m].commandInProgress)
          => /\ tracker'[m].confirmedPosition = ReadingHost
             /\ tracker'[m].displayPosition = ReadingHost
             /\ tracker'[m].displayTargetPosition = ReadingHost
             /\ tracker'[m].displayPositionState = STATE_STOPPED
      ]_vars

\* an idle first device has just taken in a reading after a stop request pinned its
\* target elsewhere
C5_Witness ==
    /\ ev.act = "message" /\ ev.mac = TrackerMac /\ ~ev.was
    /\ TrackerMac \in blindAccessories
    /\ tracker[TrackerMac].displayPosition = 100 - ev.arg
    /\ tracker[TrackerMac].displayPosition = 60
    /\ tracker[TrackerMac].displayTargetPosition = 60
    /\ tracker[TrackerMac].commandTarget = 100

\* the direction the claim gives a command with target t and reference c
ClaimedDirection(t, c) == IF t > c THEN STATE_INCREASING ELSE STATE_DECREASING

\* C6: every set-target request that starts a movement command has a target t more
\* than 2 away from its reference position c (displayed position if a command was
\* in progress when it was called, else confirmed position), and the command's
\* direction and the displayed motion-state are increasing iff t > c, decreasing
\* otherwise.
C6_DirectionOfCommand ==
    [][\A m \in Macs :
        \* started at once: no command was in progress
        /\ (ev'.act = "setTargetPosition" /\ ev'.mac = m /\ ev'.op = "setPosition")
             => LET t == tracker'[m].commandTarget
                    c == tracker[m].confirmedPosition IN
                /\ ~tracker[m].commandInProgress
                /\ Abs(t - c) > 2
                /\ tracker'[m].commandDirection = ClaimedDirection(t, c)
                /\ tracker'[m].displayPositionState = ClaimedDirection(t, c)
        \* called while a command was in progress: the reference is captured
        /\ (ev'.act = "setTargetPosition" /\ ev'.mac = m /\ LeftCont.k = "stcRedirect")
             => /\ tracker[m].commandInProgress
                /\ LeftCont.cur = tracker[m].displayPosition
                /\ Abs(LeftCont.target - LeftCont.cur) > 2
        \* and the command starts after the stop
        /\ (ev'.act = "stcRedirect" /\ ev'.mac = m)
             => LET t == run.cont.target
                    c == run.cont.cur IN
                /\ tracker'[m].commandTarget = t
                /\ tracker'[m].commandDirection = ClaimedDirection(t, c)
                /\ tracker'[m].displayPositionState = ClaimedDirection(t, c)
      ]_vars

\* a command down has just been started by a request made while a command up was
\* in progress
C6_Witness ==
    /\ ev.act = "stcRedirect" /\ ev.mac = TrackerMac
    /\ tracker[TrackerMac].commandInProgress
    /\ tracker[TrackerMac].commandDirection = STATE_DECREASING
    /\ tracker[TrackerMac].commandTarget = 61

\* C7: when the setPosition send of a movement command fails (send error, request
\* timeout or transport not connected), the tracker is left with no command in
\* progress, motion-state stopped, the deadline timer cleared and the displayed
\* position unchanged, and the call returns a communication error to the host.
C7_SendFailureReverts ==
    [][\A m \in Macs :
        \* the failure itself changes no tracker
        /\ (run = NoRun /\ run'.cont.k = "stcSetPos" /\ ~run'.ok
                /\ ev'.act \in {"requestTimeout", "sendError"})
             => tracker' = tracker
        \* the catch block
        /\ (run.cont.k = "stcSetPos" /\ run.cont.mac = m /\ ~run.ok)
             => /\ ~tracker'[m].commandInProgress
                /\ tracker'[m].displayPositionState = STATE_STOPPED
                /\ ~tracker'[m].commandTimeoutTimer
                /\ tracker'[m].displayPosition = tracker[m].displayPosition
                /\ ev'.ret = "error"
      ]_vars

\* the setPosition send of a command of the first device has just failed after a
\* reading had moved the displayed position
C7_Witness ==
    /\ ev.act = "stcSetPos" /\ ev.mac = TrackerMac /\ ev.ret = "error"
    /\ ~tracker[TrackerMac].commandInProgress
    /\ tracker[TrackerMac].displayPosition # tracker[TrackerMac].confirmedPosition

\* every entry of the pending-request table is the closure of an unsettled request,
\* and every unsettled request has its 5 s timer armed
TableHoldsPendingOnly ==
    /\ \A key \in AckKinds :
         responseHandlers[key] =>
            \E i \in ReqIds : requests[i].handler /\ expectedResponse(requests[i].kind) = key
    /\ \A i \in ReqIds : requests[i].timer
    /\ \A i, j \in ReqIds :
         (i # j /\ requests[i].handler /\ requests[j].handler)
            => requests[i].kind # requests[j].kind

\* C8: a send() that is still unanswered when its 5 s have passed is rejected by its
\* timeout (requests time out in the order sent, each timer being armed for as long
\* as the request is unsettled), and once a send() is settled by a matching response
\* or by its timeout the pending-request table holds no entry of that request: every
\* entry belongs to a request that is still unsettled.
C8_TimeoutAndTableCleanup ==
    [][/\ TableHoldsPendingOnly'
       /\ ev'.act = "requestTimeout"
            => /\ Len(requests) > 0 /\ Len(requests') = Len(requests) - 1
               /\ \A i \in 1..Len(requests') : requests'[i].cont = requests[i + 1].cont
               /\ run' = Continue(requests[1].cont, FALSE)
               /\ ~responseHandlers'[expectedResponse(requests[1].kind)]
       /\ (ev'.act = "dispatch" /\ Len(requests') < Len(requests))
            => /\ ~responseHandlers'[inbound.msgType]
               /\ \E i \in ReqIds :
                    /\ expectedResponse(requests[i].kind) = inbound.msgType
                    /\ run' = Continue(requests[i].cont, TRUE)
      ]_vars

\* an awaited request has just been rejected by its timeout while a later request
\* is still unsettled and registered
C8_Witness ==
    /\ ev.act = "requestTimeout"
    /\ run # NoRun /\ ~run.ok
    /\ Len(requests) = 1 /\ requests[1].handler
    /\ responseHandlers[expectedResponse(requests[1].kind)]

\* C9 as stated: the first inbound message of kind K + "Ack" that arrives while
\* requests of kind K are outstanding resolves every one of them, so none of them is
\* left unsettled by the message.
C9_FirstMatchResolves ==
    [][(ev'.act = "dispatch" /\ inbound.msgType \in AckKinds)
         => \A i \in 1..Len(requests') :
               expectedResponse(requests'[i].kind) # inbound.msgType
      ]_vars

\* a reconnection attempt is running: its connect() is unsettled, its enumeration
\* request is unsettled, or its continuation is the microtask to run next
AttemptRunning ==
    \/ \E i \in ConnIds : connects[i].owner = "reconnConnect" /\ connects[i].pending
    \/ \E i \in ReqIds : requests[i].cont.k = "reconnEnum"
    \/ run.cont.k \in {"reconnConnect", "reconnEnum"}

\* C10: a socket error marks the transport disconnected and arms the reconnect
\* timer; the timer's callback calls connect() and, when that succeeds, issues the
\* device enumeration request; a failed connect or enumeration arms the timer again;
\* and as long as disconnect() has not been called, a transport that has had a socket
\* error is never disconnected with neither the timer armed nor an attempt running.
C10_ReconnectKeepsTrying ==
    [][/\ ev'.act = "socketError" => ~isConnected' /\ reconnectTimer'
       /\ ev'.act = "reconnect"
            => /\ reconnectTimer /\ ~reconnectTimer'
               /\ IF isConnected
                  THEN run' = [cont |-> Cont("reconnConnect", NoMac, NoPos, NoPos, 0),
                               ok |-> TRUE]
                  ELSE /\ socket' = "binding"
                       /\ \E i \in ConnIds :
                            /\ connects[i] = NoConnect
                            /\ connects'[i].owner = "reconnConnect"
                            /\ connects'[i].pending /\ connects'[i].timer
       /\ (run.cont.k = "reconnConnect" /\ run.ok)
            => /\ ev'.op = "getDeviceList"
               /\ IF Connected
                  THEN /\ Len(requests') = Len(requests) + 1
                       /\ requests'[Len(requests')].kind = "GetDeviceList"
                       /\ requests'[Len(requests')].cont.k = "reconnEnum"
                  ELSE run'.cont.k = "reconnEnum" /\ ~run'.ok
       /\ (run.cont.k \in {"reconnConnect", "reconnEnum"} /\ ~run.ok) => reconnectTimer'
       /\ (errorSeen' /\ ~disconnectCalled' /\ ~isConnected')
            => reconnectTimer' \/ AttemptRunning'
      ]_vars

\* after a socket error and a failed attempt, the transport is disconnected, the
\* timer has fired and the next attempt's connect() is under way
C10_Witness ==
    /\ ev.act = "reconnect"
    /\ errorSeen /\ ~disconnectCalled /\ ~isConnected /\ ~reconnectTimer
    /\ socket = "binding"
    /\ \E i \in ConnIds : connects[i].owner = "reconnConnect" /\ connects[i].pending
    /\ \E i \in ConnIds : connects[i].owner = "reconnConnect" /\ ~connects[i].pending
                            /\ connects[i].timer

\* C11 as stated: when disconnect() returns, none of the transport's timers is armed
\* (reconnect timer, status-polling timer, the 5 s timer of every request, the 10 s
\* timer of every connect), the socket is closed and the transport is marked
\* disconnected; a second disconnect() right after it changes nothing.
C11_DisconnectClearsAll ==
    [][ev'.act = "disconnect"
         => /\ ~reconnectTimer' /\ ~statusPollingTimer'
            /\ \A i \in 1..Len(requests') : ~requests'[i].timer
            /\ \A i \in ConnIds : ~connects'[i].timer
            /\ socket' = "null" /\ ~isConnected'
            /\ ev.act = "disconnect" => UNCHANGED gatewayVars
      ]_vars

\* the queries of the status-polling round that are unsettled or about to continue
RoundQueries ==
    Cardinality({i \in ReqIds : requests[i].cont.k = "statusLoop"})
    + (IF run.cont.k = "statusLoop" THEN 1 ELSE 0)

\* C12: a round of the status-polling loop calls getStatus for every device of the
\* list in list order, the next one only when the one before it has settled (at most
\* one query of the round is unsettled), whether that one succeeded or failed; the
\* round ends only after the last device, and a failure leaves the interval armed.
C12_StatusRoundCoversAll ==
    [][/\ ev'.act = "statusPoll"
            => statusLoop = 0 /\ statusLoop' = 1
               /\ ev'.op = "getStatus" /\ ev'.mac = MacSeq[1]
       /\ run.cont.k = "statusLoop"
            => /\ run.cont.ix = statusLoop
               /\ statusPollingTimer' = statusPollingTimer
               /\ IF statusLoop < Len(MacSeq)
                  THEN /\ statusLoop' = statusLoop + 1
                       /\ ev'.op = "getStatus" /\ ev'.mac = MacSeq[statusLoop + 1]
                  ELSE statusLoop' = 0 /\ ev'.op = "none"
       /\ statusLoop' # statusLoop
            => ev'.act = "statusPoll" \/ run.cont.k = "statusLoop"
       /\ RoundQueries' = (IF statusLoop' = 0 THEN 0 ELSE 1)
      ]_vars

\* the query for the first device was sent and then lost to a disconnect, and the
\* round has gone on to call getStatus for the second device
C12_Witness ==
    /\ ev.act = "statusLoop" /\ ev.mac = MacSeq[2] /\ ev.op = "getStatus" /\ ~ev.tx
    /\ disconnectCalled /\ ~errorSeen
    /\ statusLoop = 2

\* C13: x -> 100 - x is its own inverse on 0..100 and stays in 0..100, a movement
\* command with host target t puts targetPosition 100 - t in its setPosition
\* message, and a reading with protocol position p moves the tracker's positions
\* to the host position 100 - p or leaves them.
C13_MappingAppliedOnce ==
    [][/\ \A x \in 0..100 :
            /\ homeKitToProtocol(protocolToHomeKit(x)) = x
            /\ protocolToHomeKit(homeKitToProtocol(x)) = x
            /\ homeKitToProtocol(x) \in 0..100 /\ protocolToHomeKit(x) \in 0..100
       /\ \A m \in Macs :
            /\ StartsCommand(m)
                 => ev'.op = "setPosition" /\ ev'.arg = 100 - tracker'[m].commandTarget
            /\ ReadingStep(m)
                 => /\ tracker'[m].displayPosition
                         \in {tracker[m].displayPosition, 100 - inbound'.data}
                    /\ tracker'[m].confirmedPosition
                         \in {tracker[m].confirmedPosition, 100 - inbound'.data}
                    /\ ~tracker[m].commandInProgress
                         => tracker'[m].displayPosition = 100 - inbound'.data
      ]_vars

\* a command to host position 61 has just been sent as protocol position 39 from a
\* position that a reading of protocol position 2 had set to 98
C13_Witness ==
    /\ ev.act = "setTargetPosition" /\ ev.op = "setPosition" /\ ev.tx /\ ev.arg = 39
    /\ tracker[TrackerMac].commandTarget = 61
    /\ tracker[TrackerMac].confirmedPosition = 98

\* C14 as stated: in every reachable state the displayed position of every tracker
\* lies in 0..100, whatever status readings and set-target requests came before.
C14_DisplayedInRange ==
    \A m \in Macs : tracker[m].displayPosition \in 0..100

\* the reading taken in by this step lies strictly ahead of m's displayed position
\* in the commanded direction
Advances(m) ==
    \/ tracker[m].commandDirection = STATE_INCREASING
         /\ ReadingHost > tracker[m].displayPosition
    \/ tracker[m].commandDirection = STATE_DECREASING
         /\ ReadingHost < tracker[m].displayPosition

\* C15: while a command is in progress, a reading not within 2 of the target is
\* accepted iff it is strictly greater than the displayed position (direction
\* increasing) or strictly less (decreasing); an accepted reading changes the
\* displayed position and nothing else of the tracker, a rejected one changes
\* nothing of it.
C15_ProgressFilter ==
    [][\A m \in Macs :
        (ReadingStep(m) /\ tracker[m].commandInProgress
            /\ Abs(ReadingHost - tracker[m].commandTarget) > 2)
          => /\ tracker[m].commandDirection \in {STATE_INCREASING, STATE_DECREASING}
             /\ Advances(m)
                  => tracker'[m] = [tracker[m] EXCEPT !.displayPosition = ReadingHost]
             /\ ~Advances(m) => tracker'[m] = tracker[m]
      ]_vars

\* a reading on the way to the target has just been accepted: the displayed position
\* is the reading and the confirmed position is still where the command started
C15_Witness ==
    /\ ev.act = "message" /\ ev.mac = TrackerMac /\ ev.was
    /\ tracker[TrackerMac].commandInProgress
    /\ tracker[TrackerMac].displayPosition = 100 - ev.arg
    /\ tracker[TrackerMac].displayPosition # tracker[TrackerMac].confirmedPosition
    /\ tracker[TrackerMac].displayPositionState = STATE_INCREASING

\* C16 as stated: at every moment at most one request per expected response kind is
\* pending (sent and not settled).
C16_OnePendingPerKind ==
    \A i, j \in ReqIds :
        i # j => expectedResponse(requests[i].kind) # expectedResponse(requests[j].kind)

\* C17 as stated: whenever no command of a device is in progress, neither its
\* movement deadline nor any tick of its poll schedule is armed.
C17_IdleHasNoTimers ==
    \A m \in Macs :
        ~tracker[m].commandInProgress
          => ~tracker[m].commandTimeoutTimer /\ tracker[m].pollTimers = 0

\* C18: a set-target request made while a command is in progress, with a value more
\* than 2 away from the displayed position, cancels the command (flag, deadline and
\* poll ticks), calls stop and nothing else, and when the stop has settled, failed or
\* not, sets up the new command and calls setPosition: a command is in progress
\* with the new target, the direction computed for it, and the deadline armed.
C18_RedirectStopsThenMoves ==
    [][\A m \in Macs :
        /\ (ev'.act = "setTargetPosition" /\ ev'.mac = m /\ tracker[m].commandInProgress)
             => /\ LeftCont.k \in {"stcStop", "stcRedirect"}
                /\ LeftCont.k = "stcRedirect"
                     <=> Abs(LeftCont.target - tracker[m].displayPosition) > 2
        /\ (ev'.act = "setTargetPosition" /\ ev'.mac = m /\ LeftCont.k = "stcRedirect")
             => /\ tracker[m].commandInProgress
                /\ ~tracker'[m].commandInProgress
                /\ ~tracker'[m].commandTimeoutTimer /\ tracker'[m].pollTimers = 0
                /\ ev'.op = "stop"
                /\ IF Connected
                   THEN /\ Len(requests') = Len(requests) + 1
                        /\ requests'[Len(requests')].kind = "WriteDevice"
                   ELSE requests' = requests /\ ~run'.ok
        /\ (run.cont.k = "stcRedirect" /\ run.cont.mac = m)
             => /\ ev'.act = "stcRedirect" /\ ev'.op = "setPosition"
                /\ ev'.arg = 100 - run.cont.target
                /\ tracker'[m].commandInProgress
                /\ tracker'[m].commandTarget = run.cont.target
                /\ tracker'[m].displayTargetPosition = run.cont.target
                /\ tracker'[m].commandDirection
                     = ClaimedDirection(run.cont.target, run.cont.cur)
                /\ tracker'[m].commandTimeoutTimer
      ]_vars

\* the stop of a redirect failed on a transport that was disconnected, and the new
\* command to 100 has been set up all the same
C18_Witness ==
    /\ ev.act = "stcRedirect" /\ ev.mac = TrackerMac /\ ev.op = "setPosition" /\ ~ev.tx
    /\ disconnectCalled
    /\ tracker[TrackerMac].commandInProgress
    /\ tracker[TrackerMac].commandTarget = 100
    /\ tracker[TrackerMac].commandTimeoutTimer

\* this step takes a datagram in (handleMessage up to the telemetry event)
TakesIn == inbound = NoMsg /\ inbound' # NoMsg

\* the datagram taken in is a WriteDeviceAck or ReadDeviceAck with a device address
\* and a status payload
CarriesStatus ==
    /\ inbound'.msgType \in {"WriteDeviceAck", "ReadDeviceAck"}
    /\ inbound'.mac # NoMac
    /\ inbound'.data # NoPos

\* C19: every inbound WriteDeviceAck or ReadDeviceAck that carries a device address
\* and a status payload is published as one telemetry event (the tracker registered
\* for the address takes the reading in once), whether or not a request of that kind
\* is pending; other messages publish none; and publishing creates, resolves and
\* removes no pending request.
C19_TelemetryIndependentOfRequests ==
    [][TakesIn
         => /\ UNCHANGED <<responseHandlers, requests, run>>
            /\ CarriesStatus
                 => \A m \in Macs :
                       tracker'[m] =
                          IF m = inbound'.mac /\ m \in blindAccessories
                          THEN updateState(tracker[m], inbound'.data)
                          ELSE tracker[m]
            /\ ~CarriesStatus => tracker' = tracker
      ]_vars

\* a ReadDeviceAck nobody asked for, with no request pending at all, has just been
\* taken in by the tracker of the first device
C19_Witness ==
    /\ inbound.msgType = "ReadDeviceAck" /\ inbound.mac = TrackerMac /\ inbound.data = 40
    /\ requests = <<>> /\ \A key \in AckKinds : ~responseHandlers[key]
    /\ ev.act = "message"
    /\ tracker[TrackerMac].displayPosition = 60
    /\ tracker[TrackerMac].confirmedPosition = 60

\* C20: a telemetry event for address A changes the tracker registered for A and no
\* other: positions, target, motion-state, in-progress flag and timers of every
\* other tracker are unchanged, and an event for an address without a tracker
\* changes no tracker.
C20_TelemetryFrame ==
    [][(TakesIn /\ CarriesStatus)
         => /\ \A m \in Macs : m # inbound'.mac => tracker'[m] = tracker[m]
            /\ stopTimers' = stopTimers
            /\ inbound'.mac \notin blindAccessories => tracker' = tracker
      ]_vars

\* a reading for the second device has just been taken in by its tracker while a
\* command of the first device is in progress and untouched
C20_Witness ==
    /\ ev.act = "message" /\ ev.mac = MacSeq[2] /\ ev.arg = 40
    /\ tracker[MacSeq[2]].displayPosition = 60
    /\ tracker[MacSeq[1]].commandInProgress
    /\ tracker[MacSeq[1]].displayPosition = 0
    /\ tracker[MacSeq[1]].commandTimeoutTimer

\* C21 as stated: when the setPosition send of a set-target call fails after another
\* call has started a command of its own (the command in progress has another target
\* than the failed call's), the failure leaves that command as it is: in progress,
\* deadline armed, motion-state displayed.
C21_LateFailureSparesLaterCommand ==
    [][\A m \in Macs :
        (run.cont.k = "stcSetPos" /\ run.cont.mac = m /\ ~run.ok
            /\ tracker[m].commandInProgress
            /\ tracker[m].commandTarget # run.cont.target)
          => /\ tracker'[m].commandInProgress
             /\ tracker'[m].commandTimeoutTimer = tracker[m].commandTimeoutTimer
             /\ tracker'[m].displayPositionState = tracker[m].displayPositionState
             /\ tracker'[m].displayTargetPosition = tracker[m].displayTargetPosition
      ]_vars

\* C22 as stated: the timeout of a request removes that request's entry only: an
\* entry of the pending-request table that belongs to another, later request stays
\* in the table, with that request still the one the next matching response resolves.
C22_TimeoutSparesLaterEntry ==
    [][ev'.act = "requestTimeout"
         => \A key \in AckKinds :
               (responseHandlers[key] /\ Registered(key) \notin {0, NextTimer})
                 => /\ responseHandlers'[key]
                    /\ \E j \in 1..Len(requests') :
                         /\ requests'[j].handler
                         /\ expectedResponse(requests'[j].kind) = key
                         /\ requests'[j].cont = requests[Registered(key)].cont
      ]_vars

\* The tracker part with the event loop's guarantees: a pending microtask runs, a
\* datagram taken in is handed to its response handler, and an armed timer fires
\* (it is run however often other callbacks come in between).
SpecTrackerLive ==
    /\ SpecTracker
    /\ WF_vars(Dispatch)
    /\ WF_vars(ResumeStop) /\ WF_vars(ResumeRedirect) /\ WF_vars(ResumeSetPosition)
    /\ WF_vars(ResumeInitConnect) /\ WF_vars(ResumeInitEnum)
    /\ SF_vars(RequestTimeout)
    /\ SF_vars(DeadlineFires(TrackerMac))

\* C23: whenever a command is in progress its movement deadline is armed (the one
\* timer the tracker holds), and every command in progress eventually leaves the
\* in-progress state.
C23_DeadlineArmedAndCommandEnds ==
    /\ [](tracker[TrackerMac].commandInProgress
            => tracker[TrackerMac].commandTimeoutTimer)
    /\ tracker[TrackerMac].commandInProgress
         ~> ~tracker[TrackerMac].commandInProgress

\* a command has just been ended by its deadline and by nothing else: no reading
\* reached its target and its send was acknowledged
C23_Witness ==
    /\ ev.act = "deadline" /\ ev.mac = TrackerMac /\ ev.op = "getStatus"
    /\ ~tracker[TrackerMac].commandInProgress
    /\ ~tracker[TrackerMac].commandTimeoutTimer
    /\ tracker[TrackerMac].displayPosition = 0
    /\ tracker[TrackerMac].commandTarget = 100
    /\ ~disconnectCalled

\* C24 as stated: in every reachable state, whenever a command is in progress the
\* displayed motion-state is the command's direction, increasing or decreasing, and
\* not stopped.
C24_MovingShowsDirection ==
    \A m \in Macs :
        tracker[m].commandInProgress
          => /\ tracker[m].displayPositionState = tracker[m].commandDirection
             /\ tracker[m].displayPositionState \in {STATE_INCREASING, STATE_DECREASING}


\* C25 as stated: whenever no command is in progress, the confirmed position equals
\* the displayed position (after every exit from a command: stop, deadline, send
\* failure).
C25_ConfirmedIsDisplayed ==
    \A m \in Macs :
        ~tracker[m].commandInProgress
          => tracker[m].confirmedPosition = tracker[m].displayPosition


\* C26 as stated: once disconnect() has been called the transport stays
\* disconnected: no step afterwards leaves the reconnect timer armed, starts a
\* reconnection attempt, or leaves the connected flag true (the model has no
\* connect() from outside after disconnect()).
C26_DisconnectIsFinal ==
    [][disconnectCalled
         => /\ ~reconnectTimer'
            /\ ev'.act # "reconnect"
            /\ ~isConnected'
      ]_vars


\* The send path of the gateway: connection, loss and re-establishment of the
\* transport, disconnect, the enumeration and the status rounds as callers of
\* send(), responses, send errors and request timeouts; under the event loop's
\* scheduling: a datagram taken from the socket is dispatched, a settled promise
\* resumes the code awaiting it, and an armed 5 s request timer fires.
NextSend ==
    \/ InitializeGateway
    \/ BindOk
    \/ \E i \in ConnIds : ConnectTimeout(i)
    \/ SocketError
    \/ ReconnectTimerFires
    \/ Disconnect
    \/ \E msg \in GatewayMessages : Receive(msg)
    \/ Dispatch
    \/ RequestTimeout
    \/ \E i \in 1..MaxRequests : SendError(i)
    \/ StatusPollTick
    \/ ResumeInitConnect
    \/ ResumeInitEnum
    \/ ResumeReconnConnect
    \/ ResumeReconnEnum
    \/ ResumeStatusLoop

SpecSend ==
    /\ Init /\ [][NextSend]_vars
    /\ WF_vars(Dispatch)
    /\ WF_vars(ResumeInitConnect) /\ WF_vars(ResumeInitEnum)
    /\ WF_vars(ResumeReconnConnect) /\ WF_vars(ResumeReconnEnum)
    /\ WF_vars(ResumeStatusLoop)
    /\ SF_vars(RequestTimeout)

\* the callers that await a send() of the gateway: the enumeration of
\* initializeGateway and of a reconnection attempt, and the status queries of a
\* polling round
SendConts ==
    {Cont(k, NoMac, NoPos, NoPos, 0) : k \in {"initEnum", "reconnEnum"}}
      \cup {Cont(k, MacSeq[ix], NoPos, NoPos, ix) :
                k \in {"statusLoop"}, ix \in 1..Len(MacSeq)}

\* a send() awaited by c is pending
Pending(c) == \E i \in ReqIds : requests[i].cont = c

\* the last step settled a send() awaited by c: by a response, a send error or
\* the request's timeout
Settled(c) ==
    /\ ev.act \in {"dispatch", "requestTimeout", "sendError"}
    /\ run # NoRun /\ run.cont = c

\* C27: a step that calls send() while connected adds one pending request with its
\* 5 s timer armed, and every pending send() is eventually settled (its caller is
\* resumed by a response, a send error or the timeout), whether or not its table
\* entry is still its own; a step that calls send() while not connected adds no
\* pending request, leaves the table alone and fails the caller at once.
C27_EverySendSettles ==
    /\ [][(ev'.op # "none" /\ ev'.tx)
             => /\ Len(requests') = Len(requests) + 1
                /\ requests'[Len(requests')].timer
                /\ run' = NoRun
         ]_vars
    /\ [][(ev'.op # "none" /\ ~ev'.tx)
             => /\ requests' = requests
                /\ responseHandlers' = responseHandlers
                /\ run' # NoRun /\ ~run'.ok
         ]_vars
    /\ [](\A i \in ReqIds : requests[i].timer /\ requests[i].cont \in SendConts)
    /\ \A c \in SendConts : Pending(c) ~> Settled(c)

\* a request whose table entry was replaced by a later request of the same kind is
\* settled by its own timeout while the later request is still pending
C27_Witness ==
    /\ ev.act = "requestTimeout"
    /\ run = Continue(Cont("initEnum", NoMac, NoPos, NoPos, 0), FALSE)
    /\ \E j \in ReqIds : requests[j].cont.k = "reconnEnum" /\ requests[j].kind = "GetDeviceList"

====
